---- MODULE Spec2Model ----
(***************************************************************************)
(* A model of foldseek_anno.py: the identifier extraction, the bounded     *)
(* concurrent fetch with retries (AlphaFold JSON API, MGnify web page),    *)
(* and the merge of the fetched annotations into the rows of the m8 file.  *)
(*                                                                         *)
(* Specifications: Spec (fetch_all_annotations and its tasks), SpecLive    *)
(* (the same under a fair event loop), SpecMain (main with valid           *)
(* arguments), SpecCli (main from the command line), and SpecFormat,       *)
(* SpecExtract, SpecParse (one function called on bounded inputs).         *)
(*                                                                         *)
(* Text is modelled as a sequence of one-character strings, so that        *)
(* split, strip, find and replace are computed as Python computes them.    *)
(* "fmt".format(arg) is modelled as the pair <<fmt, arg>>.                 *)
(***************************************************************************)
EXTENDS Integers, Sequences, FiniteSets, TLC

VARIABLES
    database,             \* args.database
    CONCURRENT_REQUESTS,  \* the global set from args.concurrent
    protein_ids,          \* sorted list of the identifiers to query
    pc,                   \* position of main / fetch_all_annotations
    tasks,                \* the identifiers a fetch coroutine was created for
    semaphore,            \* free slots of asyncio.Semaphore
    tpc,                  \* position of each fetch task
    attempt,              \* loop variable of each fetch task
    calls,                \* instrumentation: session.get calls per identifier
    lasterr,              \* instrumentation: error text the last attempt ended with
    answers,              \* the answers the backend gives in this run
    completed,            \* queue of as_completed: results in completion order
    results,              \* the list built by fetch_all_annotations
    annotations,          \* the dict returned by fetch_all_annotations
    m8_file,              \* the input file, a sequence of lines
    output,               \* the rows written by the merge
    argv,                 \* the command line: -d, and whether -i and -o can be opened
    exit_status,          \* exit status of the process; -1 while it runs
    call,                 \* a function called on its own: its name and arguments
    ret                   \* what that call returned

vars == <<database, CONCURRENT_REQUESTS, protein_ids, pc, tasks, semaphore, tpc,
          attempt, calls, lasterr, answers, completed, results, annotations,
          m8_file, output, argv, exit_status, call, ret>>

(* The state of a run of main *)
run == <<database, CONCURRENT_REQUESTS, protein_ids, pc, tasks, semaphore, tpc,
         attempt, calls, lasterr, answers, completed, results, annotations,
         m8_file, output, argv, exit_status>>

----------------------------------------------------------------------------
(* Bounds of the model *)

MaxIds == 2

MaxLimit == 2

MaxLines == 2

MaxEntries == 2

MaxPieces == 4

(* Program constants *)

retries == 3

(* A selector that also lets "pdb" through *)
Databases_WithPdb == {"alphafold", "mgnify", "pdb"}

(* line 341: the choices of -d *)
Databases == {"alphafold", "mgnify"}

----------------------------------------------------------------------------
(* Generic helpers *)

Range(s) == {s[i] : i \in 1..Len(s)}

Format(fmt, arg) == <<fmt, arg>>

(* A text given as one piece *)
Text(chunk) == <<chunk>>

Whitespace == {" ", "\t", "\n"}

IsSpace(text) == \A i \in 1..Len(text) : text[i] \in Whitespace

(* str.strip() *)
RECURSIVE LStrip(_)
LStrip(text) ==
    IF text # << >> /\ Head(text) \in Whitespace THEN LStrip(Tail(text)) ELSE text

RECURSIVE RStrip(_)
RStrip(text) ==
    IF text # << >> /\ text[Len(text)] \in Whitespace
    THEN RStrip(SubSeq(text, 1, Len(text) - 1))
    ELSE text

Strip(text) == RStrip(LStrip(text))

(* re.sub(r'\s+', '', text) *)
RemoveSpace(text) == SelectSeq(text, LAMBDA c : c \notin Whitespace)

(* text.startswith(pat) *)
StartsWith(text, pat) == Len(text) >= Len(pat) /\ SubSeq(text, 1, Len(pat)) = pat

(* text.find(pat), counted from 1; 0 when pat does not occur *)
RECURSIVE FindFrom(_, _, _)
FindFrom(text, pat, i) ==
    IF i + Len(pat) - 1 > Len(text) THEN 0
    ELSE IF SubSeq(text, i, i + Len(pat) - 1) = pat THEN i
    ELSE FindFrom(text, pat, i + 1)

Find(text, pat) == FindFrom(text, pat, 1)

(* pat in text *)
Contains(text, pat) == Find(text, pat) # 0

(* text.split(pat)[0] *)
Before(text, pat) ==
    LET at == Find(text, pat)
    IN  IF at # 0 THEN SubSeq(text, 1, at - 1) ELSE text

(* text.replace(pat, ""): every occurrence, left to right *)
RECURSIVE Remove(_, _)
Remove(text, pat) ==
    IF text = << >> THEN << >>
    ELSE IF StartsWith(text, pat) THEN Remove(SubSeq(text, Len(pat) + 1, Len(text)), pat)
    ELSE <<Head(text)>> \o Remove(Tail(text), pat)

(* text.split(sep) for a separator of one character *)
RECURSIVE Split(_, _)
Split(text, sep) ==
    LET at == Find(text, <<sep>>)
    IN  IF at # 0
        THEN <<SubSeq(text, 1, at - 1)>> \o Split(SubSeq(text, at + 1, Len(text)), sep)
        ELSE <<text>>

(* sep.join(texts) *)
RECURSIVE Join(_, _)
Join(texts, sep) ==
    IF texts = << >> THEN << >>
    ELSE IF Len(texts) = 1 THEN texts[1]
    ELSE texts[1] \o sep \o Join(Tail(texts), sep)

(* text.split()[0]: the first run of characters that are not whitespace; *)
(* IndexError when there is none                                         *)
IndexError == <<"IndexError">>

RECURSIVE UntilSpace(_)
UntilSpace(text) ==
    IF text = << >> \/ Head(text) \in Whitespace THEN << >>
    ELSE <<Head(text)>> \o UntilSpace(Tail(text))

FirstToken(text) ==
    IF IsSpace(text) THEN IndexError ELSE UntilSpace(LStrip(text))

(* The characters of the model, in the order of their code points *)
Alphabet == <<"\t", "\n", " ", "-", ".", "1", "2", "A", "F", "G", "M", "P", "Q", "Y",
              "_", "q", "x">>

Ord(c) == CHOOSE i \in 1..Len(Alphabet) : Alphabet[i] = c

(* a < b for two texts, as Python compares strings *)
RECURSIVE Less(_, _)
Less(a, b) ==
    IF b = << >> THEN FALSE
    ELSE IF a = << >> THEN TRUE
    ELSE IF Head(a) = Head(b) THEN Less(Tail(a), Tail(b))
    ELSE Ord(Head(a)) < Ord(Head(b))

(* sorted(set) *)
RECURSIVE Sorted(_)
Sorted(set) ==
    IF set = {} THEN << >>
    ELSE LET least == CHOOSE a \in set : \A b \in set \ {a} : Less(a, b)
         IN  <<least>> \o Sorted(set \ {least})

----------------------------------------------------------------------------
(* What the network can answer *)

Statuses == {200, 404, 500}

(* str(e) of an exception raised by session.get or by reading the body *)
NetErrors == {"timeout"}

(* What one request can meet: a status, or an exception *)
AnswerKinds == {ToString(status) : status \in Statuses} \cup NetErrors

(* A backend of a run, as the set of what its requests can meet: a backend *)
(* that gives every request the same answer, or one that can give each     *)
(* request any answer (every run against any backend is one of its runs).  *)
Backends == {{kind} : kind \in AnswerKinds} \cup {AnswerKinds}

(* JSON values, tagged with their Python type *)
JList(v) == [t |-> "list", v |-> v]

JDict(v) == [t |-> "dict", v |-> v]

JStr(v) == [t |-> "str", v |-> v]

(* Bodies of the AlphaFold API: what response.json() returns *)
JsonBodies ==
    << JList(<< JDict([uniprotDescription |-> <<"Hemoglobin subunit">>]) >>),
       JList(<< JDict([entryId |-> <<"AF-P1-F1">>]) >>),
       JList(<< JStr("x") >>),
       JList(<< >>),
       JDict([error |-> <<"x">>]) >>

----------------------------------------------------------------------------
(* fetch_alphafold_description: the body of one attempt *)

(* What the code inside try: does once it holds a value: it returns a pair *)
(* or raises.                                                              *)
Return(pair) == [k |-> "return", pair |-> pair]

Raise(e) == [k |-> "raise", e |-> e]

FallThrough == [k |-> "next"]

(* dict.get(key, default) *)
Get(d, key, default) == IF key \in DOMAIN d THEN d[key] ELSE default

(* lines 23-27: the response was 200 and response.json() gave data *)
AlphaFoldBody(uniprot_id, data) ==
    IF data.t = "list" /\ data.v # << >>
    THEN IF data.v[1].t = "dict"
         THEN Return(<<uniprot_id,
                       Get(data.v[1].v, "uniprotDescription", <<"No description found">>)>>)
         ELSE Raise("'str' object has no attribute 'get'")
    ELSE Return(<<uniprot_id, <<"No data">>>>)

(* lines 28-29: the response was not 200 *)
AlphaFoldNon200(uniprot_id, status) ==
    Return(<<uniprot_id, Format("Error {}", ToString(status))>>)

(* lines 30-33: the except clause; FallThrough here stands for the sleep *)
AlphaFoldExcept(uniprot_id, a, e) ==
    IF a = retries - 1
    THEN Return(<<uniprot_id, Format("Failed: {}", e)>>)
    ELSE FallThrough

----------------------------------------------------------------------------
(* fetch_mgnify_from_web: the body of one attempt *)

(* A page of the MGnify site, as the regular expressions of the adapter see *)
(* it: the text of the sequence container (none or one), the embedded Pfam  *)
(* JSON block (none or one; it parses or not), and the table rows matched   *)
(* by the Pfam, InterPro and GO patterns.                                   *)
Page(seq, pfam_json, pfam_rows, ipr_rows, go_rows) ==
    [seq |-> seq, pfam_json |-> pfam_json, pfam_rows |-> pfam_rows,
     ipr_rows |-> ipr_rows, go_rows |-> go_rows]

BadJson == [ok |-> FALSE]

GoodJson(v) == [ok |-> TRUE, v |-> v]

PF1 == <<"PF00001">>

PF2 == <<"PF00002">>

Pages ==
    << Page(<< >>, << >>, << >>, << >>, << >>),
       Page(<< <<"\n", "M", "K", " ", "V", "\n">> >>,
           << GoodJson(<< JDict([accession |-> PF1, name |-> <<"7tm_1">>]) >>) >>,
           << <<PF2, <<" ", "z", "f", " ">>>> >>,
           << << <<"IPR000001">>, <<" ", "K", "r", "\n">> >> >>,
           << << <<"GO:0000001">>, <<"m", "i", "t", " ">> >> >>),
       Page(<< <<"M">> >>, << BadJson >>, << <<PF2, <<"z", "f">>>> >>, << >>, << >>) >>

(* lines 55-62 and 132-165: the record every exit of the adapter builds *)
MgnifyRecord(mgyp_id, description) ==
    [mgyp_id |-> mgyp_id, sequence_length |-> <<"N/A">>, pfam |-> << >>,
     interpro |-> << >>, go_terms |-> << >>, description |-> description]

WithError(rec, err) ==
    [x \in DOMAIN rec \cup {"error"} |-> IF x = "error" THEN err ELSE rec[x]]

(* lines 64-71; the integer len(sequence) is kept as its decimal text *)
SequenceLength(page) ==
    IF page.seq # << >>
    THEN <<ToString(Len(RemoveSpace(Strip(page.seq[1]))))>>
    ELSE <<"N/A">>

(* lines 80-85: the loop over pfam_data; an entry that is no dict raises, *)
(* and the bare except of line 86 keeps what was appended before it       *)
RECURSIVE PfamFromJson(_)
PfamFromJson(entries) ==
    IF entries = << >> \/ Head(entries).t # "dict"
    THEN << >>
    ELSE <<[accession |-> Get(Head(entries).v, "accession", << >>),
            name |-> Get(Head(entries).v, "name", << >>),
            description |-> << >>]>> \o PfamFromJson(Tail(entries))

(* lines 94-99, 105-110, 115-120: one entry per matched row *)
FromRows(rows, third) ==
    [i \in 1..Len(rows) |->
        [x \in {"accession", "name", third} |->
            IF x = "accession" THEN rows[i][1]
            ELSE IF x = "name" THEN Strip(rows[i][2]) ELSE << >>]]

(* A fallback that runs after every structured pass *)
ParsePfam_AlwaysFallsBack(page) ==
    LET fromJson == IF page.pfam_json # << >> /\ page.pfam_json[1].ok
                    THEN PfamFromJson(page.pfam_json[1].v)
                    ELSE << >>
    IN  fromJson \o FromRows(page.pfam_rows, "description")

(* lines 73-99 *)
ParsePfam(page) ==
    LET fromJson == IF page.pfam_json # << >> /\ page.pfam_json[1].ok
                    THEN PfamFromJson(page.pfam_json[1].v)
                    ELSE << >>
    IN  IF fromJson = << >> THEN FromRows(page.pfam_rows, "description") ELSE fromJson

(* lines 52-130: status 200 and response.text() gave the page *)
MgnifyBody(mgyp_id, page) ==
    Return(<<mgyp_id,
             [mgyp_id |-> mgyp_id,
              sequence_length |-> SequenceLength(page),
              pfam |-> ParsePfam(page),
              interpro |-> FromRows(page.ipr_rows, "type"),
              go_terms |-> FromRows(page.go_rows, "category"),
              description |-> <<"No description">>]>>)

(* A 404 handled like any other status: no early return *)
MgnifyNotFound_Retried(mgyp_id) == FallThrough

(* lines 132-140 *)
MgnifyNotFound(mgyp_id) ==
    Return(<<mgyp_id, MgnifyRecord(mgyp_id, <<"Not found in MGnify">>)>>)

(* lines 141-151: any other status; on an attempt that is not the last the *)
(* code leaves the try block without returning and without sleeping        *)
MgnifyHttpError(mgyp_id, a, status) ==
    IF a = retries - 1
    THEN Return(<<mgyp_id,
                  WithError(MgnifyRecord(mgyp_id, Format("HTTP Error {}", ToString(status))),
                            Format("HTTP {}", ToString(status)))>>)
    ELSE FallThrough

(* An except clause that forgets the return of the last attempt *)
MgnifyExcept_NoReturn(mgyp_id, a, e) == FallThrough

(* lines 153-166: the except clause; FallThrough here stands for the sleep *)
MgnifyExcept(mgyp_id, a, e) ==
    IF a = retries - 1
    THEN Return(<<mgyp_id,
                  WithError(MgnifyRecord(mgyp_id, Format("Failed: {}", e)), <<e>>)>>)
    ELSE FallThrough

----------------------------------------------------------------------------
(* fetch_all_annotations and the fetch tasks *)

Id(i) == <<"P", ToString(i)>>

IdLists == {[i \in 1..n |-> Id(i)] : n \in 1..MaxIds}

IdSet == Range(protein_ids)

None == << >>

(* A limiter that lets every task through *)
CanAcquire_Unguarded(value) == TRUE

(* A limiter that keeps one slot back *)
CanAcquire_KeepsOneBack(value) == value > 1

(* asyncio.Semaphore.acquire proceeds only while a slot is free *)
CanAcquire(value) == value > 0

(* An exit of "async with semaphore" that keeps the slot *)
Release_KeepsSlot(value) == value

(* the exit of "async with semaphore" (lines 20 and 44): release() *)
Release(value) == value + 1

(* A scheduling loop that misses the first identifier *)
CreatedTasks_SkipFirst(ids, db) == Tail(ids)

(* lines 206-213: one coroutine per identifier *)
CreatedTasks(ids, db) ==
    IF db = "alphafold" \/ db = "mgnify" THEN ids ELSE << >>

(* A dict that gives the i-th identifier the record that arrived i-th *)
Dict_ZipWithArrival(pairs) ==
    LET keys == {pairs[i][1] : i \in 1..Len(pairs)}
    IN  [k \in keys |-> pairs[CHOOSE i \in 1..Len(pairs) : Id(i) = k][2]]

(* line 220: dict(results); a later pair replaces an earlier one of its key *)
Dict(pairs) ==
    LET keys == {pairs[i][1] : i \in 1..Len(pairs)}
        last(k) == CHOOSE i \in 1..Len(pairs) :
                      /\ pairs[i][1] = k
                      /\ \A j \in 1..Len(pairs) : pairs[j][1] = k => j <= i
    IN  [k \in keys |-> pairs[last(k)][2]]

Except(id, e) ==
    IF database = "alphafold"
    THEN AlphaFoldExcept(id, attempt[id], e)
    ELSE MgnifyExcept(id, attempt[id], e)

(* The task leaves "async with semaphore" (the slot is released) with the *)
(* outcome of the attempt: it returns its pair, or sleeps before the next *)
(* iteration, or goes to the next iteration at once. A loop that runs out *)
(* of iterations returns None. met is the error text the attempt met: it  *)
(* is recorded for the attempt the task returns from.                     *)
Leave(id, outcome, sleeps, met) ==
    /\ semaphore' = Release(semaphore)
    /\ lasterr' = IF outcome.k = "return" THEN [lasterr EXCEPT ![id] = met] ELSE lasterr
    /\ IF outcome.k = "return"
       THEN /\ tpc' = [tpc EXCEPT ![id] = "done"]
            /\ completed' = Append(completed, outcome.pair)
            /\ attempt' = attempt
       ELSE IF sleeps
       THEN /\ tpc' = [tpc EXCEPT ![id] = "sleep"]
            /\ UNCHANGED <<completed, attempt>>
       ELSE IF attempt[id] + 1 < retries
       THEN /\ tpc' = [tpc EXCEPT ![id] = "loop"]
            /\ attempt' = [attempt EXCEPT ![id] = @ + 1]
            /\ UNCHANGED completed
       ELSE /\ tpc' = [tpc EXCEPT ![id] = "done"]
            /\ completed' = Append(completed, None)
            /\ attempt' = attempt
    /\ UNCHANGED <<database, CONCURRENT_REQUESTS, protein_ids, pc, tasks, calls,
                   answers, results, annotations, m8_file, output,
                   argv, exit_status, call, ret>>

Init ==
    /\ database \in Databases
    /\ CONCURRENT_REQUESTS \in -1..MaxLimit
    /\ protein_ids \in IdLists
    /\ pc = "fetch_all"
    /\ tasks = << >>
    /\ semaphore = 0
    /\ tpc = [id \in IdSet |-> "none"]
    /\ attempt = [id \in IdSet |-> 0]
    /\ calls = [id \in IdSet |-> 0]
    /\ lasterr = [id \in IdSet |-> ""]
    /\ answers \in Backends
    /\ completed = << >>
    /\ results = << >>
    /\ annotations = [x \in {} |-> << >>]
    /\ m8_file = << >>
    /\ output = << >>
    /\ argv = [d |-> database, i |-> TRUE, o |-> TRUE]
    /\ exit_status = -1
    /\ call = [f |-> "none"]
    /\ ret = << >>

(* line 201: asyncio.Semaphore(value) raises ValueError for a negative value *)
NewSemaphore ==
    /\ pc = "fetch_all"
    /\ IF CONCURRENT_REQUESTS < 0
       THEN pc' = "raised" /\ UNCHANGED semaphore
       ELSE pc' = "session" /\ semaphore' = CONCURRENT_REQUESTS
    /\ UNCHANGED <<database, CONCURRENT_REQUESTS, protein_ids, tasks, tpc, attempt,
                   calls, lasterr, answers, completed, results, annotations, m8_file,
                   output,
                   argv, exit_status, call, ret>>

(* lines 206-216: the coroutines are created and as_completed starts them *)
CreateTasks ==
    /\ pc = "session"
    /\ tasks' = CreatedTasks(protein_ids, database)
    /\ tpc' = [id \in IdSet |-> IF id \in Range(tasks') THEN "loop" ELSE "none"]
    /\ pc' = "as_completed"
    /\ UNCHANGED <<database, CONCURRENT_REQUESTS, protein_ids, semaphore, attempt,
                   calls, lasterr, answers, completed, results, annotations, m8_file,
                   output,
                   argv, exit_status, call, ret>>

(* lines 20-21 and 44-45: the slot is taken and the GET is sent *)
Acquire(id) ==
    /\ pc = "as_completed"
    /\ tpc[id] = "loop"
    /\ CanAcquire(semaphore)
    /\ semaphore' = semaphore - 1
    /\ tpc' = [tpc EXCEPT ![id] = "request"]
    /\ calls' = [calls EXCEPT ![id] = @ + 1]
    /\ UNCHANGED <<database, CONCURRENT_REQUESTS, protein_ids, pc, tasks, attempt,
                   lasterr, answers, completed, results, annotations, m8_file,
                   output,
                   argv, exit_status, call, ret>>

(* session.get raises (timeout, connection error) *)
GetRaises(id) ==
    /\ tpc[id] = "request"
    /\ \E e \in NetErrors \cap answers : Leave(id, Except(id, e), TRUE, e)

(* session.get answers with a status *)
GetStatus(id) ==
    /\ tpc[id] = "request"
    /\ \E status \in {x \in Statuses : ToString(x) \in answers} :
          IF status = 200
          THEN /\ tpc' = [tpc EXCEPT ![id] = "body"]
               /\ UNCHANGED <<database, CONCURRENT_REQUESTS, protein_ids, pc, tasks,
                              semaphore, attempt, calls, lasterr, answers, completed,
                              results, annotations, m8_file, output,
                              argv, exit_status, call, ret>>
          ELSE IF database = "alphafold"
          THEN Leave(id, AlphaFoldNon200(id, status), FALSE, ToString(status))
          ELSE IF status = 404
          THEN Leave(id, MgnifyNotFound(id), FALSE, ToString(status))
          ELSE Leave(id, MgnifyHttpError(id, attempt[id], status), FALSE, ToString(status))

(* response.json() or response.text() raises *)
BodyRaises(id) ==
    /\ tpc[id] = "body"
    /\ \E e \in NetErrors \cap answers : Leave(id, Except(id, e), TRUE, e)

(* response.json() or response.text() returns; the code of the 200 branch *)
(* runs, and what it raises reaches the except clause                     *)
BodyRead(id) ==
    /\ tpc[id] = "body"
    /\ IF database = "alphafold"
       THEN \E i \in 1..Len(JsonBodies) :
               LET out == AlphaFoldBody(id, JsonBodies[i])
               IN  IF out.k = "raise"
                   THEN Leave(id, Except(id, out.e), TRUE, out.e)
                   ELSE Leave(id, out, FALSE, "")
       ELSE \E i \in 1..Len(Pages) : Leave(id, MgnifyBody(id, Pages[i]), FALSE, "")

(* lines 33 and 166: asyncio.sleep is over, the next iteration starts *)
Wake(id) ==
    /\ tpc[id] = "sleep"
    /\ IF attempt[id] + 1 < retries
       THEN /\ tpc' = [tpc EXCEPT ![id] = "loop"]
            /\ attempt' = [attempt EXCEPT ![id] = @ + 1]
            /\ UNCHANGED completed
       ELSE /\ tpc' = [tpc EXCEPT ![id] = "done"]
            /\ completed' = Append(completed, None)
            /\ attempt' = attempt
    /\ UNCHANGED <<database, CONCURRENT_REQUESTS, protein_ids, pc, tasks, semaphore,
                   calls, lasterr, answers, results, annotations, m8_file, output,
                   argv, exit_status, call, ret>>

(* lines 216-218: the next completed task is awaited *)
Await ==
    /\ pc = "as_completed"
    /\ Len(results) < Len(tasks)
    /\ completed # << >>
    /\ results' = Append(results, Head(completed))
    /\ completed' = Tail(completed)
    /\ UNCHANGED <<database, CONCURRENT_REQUESTS, protein_ids, pc, tasks, semaphore,
                   tpc, attempt, calls, lasterr, answers, annotations, m8_file,
                   output,
                   argv, exit_status, call, ret>>

(* line 220; dict() raises TypeError on a result that is no pair *)
ReturnDict ==
    /\ pc = "as_completed"
    /\ Len(results) = Len(tasks)
    /\ IF \E i \in 1..Len(results) : results[i] = None
       THEN pc' = "raised" /\ UNCHANGED annotations
       ELSE pc' = "returned" /\ annotations' = Dict(results)
    /\ UNCHANGED <<database, CONCURRENT_REQUESTS, protein_ids, tasks, semaphore, tpc,
                   attempt, calls, lasterr, answers, completed, results, m8_file,
                   output,
                   argv, exit_status, call, ret>>

Next ==
    \/ NewSemaphore
    \/ CreateTasks
    \/ \E id \in IdSet : Acquire(id)
    \/ \E id \in IdSet : GetRaises(id)
    \/ \E id \in IdSet : GetStatus(id)
    \/ \E id \in IdSet : BodyRaises(id)
    \/ \E id \in IdSet : BodyRead(id)
    \/ \E id \in IdSet : Wake(id)
    \/ Await
    \/ ReturnDict

Spec == Init /\ [][Next]_vars

(* The steps of the task of the i-th identifier *)
TaskStep(i) ==
    /\ i <= Len(protein_ids)
    /\ \/ Acquire(Id(i))
       \/ GetRaises(Id(i))
       \/ GetStatus(Id(i))
       \/ BodyRaises(Id(i))
       \/ BodyRead(Id(i))
       \/ Wake(Id(i))

(* The event loop runs every coroutine that can run: a request ends with *)
(* a status or an exception (timeout=30), a sleep ends, a task that waits *)
(* for the semaphore runs once a slot stays free, and the loop of         *)
(* fetch_all_annotations runs when a result is there.                     *)
Fairness ==
    /\ \A i \in 1..MaxIds : WF_vars(TaskStep(i))
    /\ WF_vars(NewSemaphore)
    /\ WF_vars(CreateTasks)
    /\ WF_vars(Await)
    /\ WF_vars(ReturnDict)

(* The runs with a limit the claim of termination is about: -c positive *)
InitLive == Init /\ CONCURRENT_REQUESTS > 0

SpecLive == InitLive /\ [][Next]_vars /\ Fairness

----------------------------------------------------------------------------
(* Properties of the fetch *)

(* The pairs the tasks have returned so far, awaited or not *)
Returned == results \o completed

PairsOf(id) ==
    LET returned == Returned
    IN  {i \in 1..Len(returned) : returned[i] # None /\ returned[i][1] = id}

RecordOf(id) == Returned[CHOOSE i \in PairsOf(id) : TRUE][2]

(* The description of an AnnotationRecord of the database of the run *)
Description(rec) == IF database = "alphafold" THEN rec ELSE rec.description

TasksFor(id) == {i \in 1..Len(tasks) : tasks[i] = id}

(* The tasks inside a request: the GET is sent, the response not yet read *)
InFlight == {id \in IdSet : tpc[id] \in {"request", "body"}}

(* C1: when fetch_all_annotations returns, the keys of the returned dict  *)
(* are exactly the identifiers given, every identifier was scheduled as   *)
(* exactly one task, and every task has finished and was awaited once.    *)
C1_MapHasEveryIdOnce ==
    pc = "returned" =>
        /\ DOMAIN annotations = IdSet
        /\ \A id \in IdSet :
              /\ Cardinality(TasksFor(id)) = 1
              /\ tpc[id] = "done"
              /\ Cardinality({i \in 1..Len(results) : results[i][1] = id}) = 1
              /\ annotations[id] = RecordOf(id)
        /\ completed = << >>

C1_Witness ==
    /\ pc = "returned"
    /\ Len(protein_ids) >= 2
    /\ \E id \in IdSet : calls[id] = retries /\ lasterr[id] # ""
    /\ \E id \in IdSet : lasterr[id] = ""

(* C2: in every state the number of tasks inside a request is at most the *)
(* limit the semaphore was built with; with a negative limit no semaphore *)
(* exists and no task is ever inside a request.                           *)
C2_InFlightBounded ==
    Cardinality(InFlight) <= IF CONCURRENT_REQUESTS > 0 THEN CONCURRENT_REQUESTS ELSE 0

C2_Witness ==
    /\ Len(protein_ids) > CONCURRENT_REQUESTS
    /\ Cardinality(InFlight) = CONCURRENT_REQUESTS
    /\ \E id \in IdSet : tpc[id] = "loop"
    /\ \E id \in IdSet : tpc[id] = "body"

(* A description that is a fixed text: no status code is formatted into it *)
IsPlaceholder(description) == Len(description) = 1

(* C3, as claimed: with a backend that answers 404, every fetch makes one *)
(* request and records the fixed "Not found" placeholder, for every       *)
(* database.                                                              *)
C3_NotFoundPlaceholderEveryBackend ==
    answers = {"404"} =>
        \A id \in IdSet :
            PairsOf(id) # {} =>
                calls[id] = 1 /\ IsPlaceholder(Description(RecordOf(id)))

(* C3, amended: a 404 is never retried by either adapter (with a backend  *)
(* that answers 404 every fetch makes exactly one request); the MGnify    *)
(* adapter records the placeholder "Not found in MGnify", without an      *)
(* error field and unlike the description of any other status; the        *)
(* AlphaFold adapter records "Error 404", the form it gives every status  *)
(* other than 200.                                                        *)
C3_NotFoundNeverRetried ==
    \A id \in IdSet :
        /\ answers = {"404"} => calls[id] <= 1
        /\ (answers = {"404"} /\ tpc[id] = "done") => calls[id] = 1 /\ PairsOf(id) # {}
        /\ (lasterr[id] = "404" /\ tpc[id] = "done") =>
              LET rec == RecordOf(id)
              IN  IF database = "mgnify"
                  THEN /\ rec.description = Text("Not found in MGnify")
                       /\ "error" \notin DOMAIN rec
                       /\ \A status \in Statuses :
                             rec.description # Format("HTTP Error {}", ToString(status))
                  ELSE rec = Format("Error {}", "404")

C3_Witness ==
    /\ pc = "returned"
    /\ answers = {"404"}
    /\ Len(protein_ids) >= 2
    /\ \A id \in IdSet : calls[id] = 1 /\ lasterr[id] = "404"

(* C4, as claimed: with a backend that answers 500 on every attempt, the  *)
(* fetch of an identifier returns after exactly retries requests and its  *)
(* description holds the error text, for every database.                  *)
C4_ServerErrorUsesEveryAttempt ==
    answers = {"500"} =>
        \A id \in IdSet :
            PairsOf(id) # {} =>
                /\ calls[id] = retries
                /\ "500" \in Range(Description(RecordOf(id)))

(* C5, as claimed: the loop of a task goes to its next attempt only out   *)
(* of the backoff sleep, whatever made the attempt fail.                  *)
C5_DelayBeforeEveryRetry ==
    [][\A id \in IdSet : attempt'[id] # attempt[id] => tpc[id] = "sleep"]_vars

MgnifyFields ==
    {"mgyp_id", "sequence_length", "pfam", "interpro", "go_terms", "description"}

(* C6: a finished fetch has returned a pair keyed by its identifier (it   *)
(* neither raised nor ran out of attempts without a result), after at     *)
(* most retries requests; the record has every field of the record shape  *)
(* of the database; and when the last attempt failed, the description     *)
(* ends with the error text of that attempt.                              *)
C6_AlwaysARecordWithTheLastError ==
    \A id \in IdSet :
        /\ calls[id] <= retries
        /\ tpc[id] = "done" =>
              LET pairs == PairsOf(id)
                  rec == Returned[CHOOSE i \in pairs : TRUE][2]
              IN  /\ Cardinality(pairs) = 1
                  /\ IF database = "mgnify"
                     THEN /\ MgnifyFields \subseteq DOMAIN rec
                          /\ rec.mgyp_id = id
                     ELSE rec # << >>
                  /\ (lasterr[id] # "" /\ ~(database = "mgnify" /\ lasterr[id] = "404")) =>
                        LET description == Description(rec)
                        IN  description[Len(description)] = lasterr[id]

C6_Witness ==
    /\ answers = AnswerKinds
    /\ \E id \in IdSet :
          /\ tpc[id] = "done"
          /\ calls[id] = retries
          /\ lasterr[id] = "timeout"
          /\ Description(RecordOf(id)) = Format("Failed: {}", "timeout")
    /\ \E id \in IdSet :
          /\ tpc[id] = "done"
          /\ lasterr[id] = "500"
          /\ Description(RecordOf(id))[2] = "500"

----------------------------------------------------------------------------
(* extract_unique_ids *)

AF == <<"A", "F", "-">>

F1 == <<"-", "F", "1">>

MGYP == <<"M", "G", "Y", "P">>

MinExtractFields == 2

MinMergeFields == 12

MgypPrefixLen == 4

(* lines 174 and 245: line.strip().split('\t') *)
Parts(line) == Split(Strip(line), "\t")

(* lines 180-181 and 248 *)
UniprotId(target) == Remove(Before(target, F1), AF)

(* An extraction that does not cut the target at the first "MGYP" *)
MgypId_WholeTarget(target) == FirstToken(Before(Before(target, <<".">>), <<"_">>))

(* lines 186-192 and 267-273 *)
MgypId(target) ==
    LET protein_id == IF StartsWith(target, MGYP)
                      THEN target
                      ELSE SubSeq(target, Find(target, MGYP), Len(target))
    IN  FirstToken(Before(Before(protein_id, <<".">>), <<"_">>))

(* lines 178-195: the identifiers one target adds to ids *)
ExtractedIds(target, db) ==
    IF db = "alphafold"
    THEN IF StartsWith(target, AF) /\ Contains(target, F1)
         THEN {UniprotId(target)}
         ELSE {}
    ELSE IF db = "mgnify"
    THEN IF StartsWith(target, MGYP) \/ Contains(target, MGYP)
         THEN IF StartsWith(MgypId(target), MGYP) /\ Len(MgypId(target)) > MgypPrefixLen
              THEN {MgypId(target)}
              ELSE {}
         ELSE {}
    ELSE {}

(* lines 173-176: the lines whose target the extraction looks at *)
HasTarget(line) == Len(Parts(line)) >= MinExtractFields

(* line 192 raises IndexError when nothing is left to split *)
ExtractRaises(file, db) ==
    \E i \in 1..Len(file) :
        /\ HasTarget(file[i])
        /\ db = "mgnify"
        /\ Contains(Parts(file[i])[2], MGYP)
        /\ MgypId(Parts(file[i])[2]) = IndexError

(* lines 168-197 *)
extract_unique_ids(file, db) ==
    Sorted(UNION {ExtractedIds(Parts(file[i])[2], db) :
                    i \in {j \in 1..Len(file) : HasTarget(file[j])}})

----------------------------------------------------------------------------
(* format_annotation_list and the two merges *)

(* A join that ends every entry with the separator *)
format_annotation_list_TrailingSep(list, annotation_type) ==
    IF list = << >> THEN Text("None")
    ELSE IF annotation_type \in {"pfam", "interpro", "go"}
    THEN Join([i \in 1..Len(list) |->
                  list[i].accession \o Text(" (") \o list[i].name \o Text(")")],
              Text("; ")) \o Text("; ")
    ELSE Text("None")

(* lines 222-234 *)
format_annotation_list(list, annotation_type) ==
    IF list = << >> THEN Text("None")
    ELSE IF annotation_type \in {"pfam", "interpro", "go"}
    THEN Join([i \in 1..Len(list) |->
                  list[i].accession \o Text(" (") \o list[i].name \o Text(")")],
              Text("; "))
    ELSE Text("None")

AlphaFoldHeader ==
    <<Text("Query_ID"), Text("Target_ID"), Text("UniProt_ID"), Text("Identity"),
      Text("Length"), Text("Mismatches"), Text("GapOpen"), Text("Q_start"),
      Text("Q_end"), Text("S_start"), Text("S_end"), Text("E-value"),
      Text("BitScore"), Text("Description")>>

MgnifyHeader ==
    <<Text("Query_ID"), Text("Target_ID"), Text("MGYP_ID"), Text("Identity"),
      Text("Length"), Text("Mismatches"), Text("GapOpen"), Text("Q_start"),
      Text("Q_end"), Text("S_start"), Text("S_end"), Text("E-value"),
      Text("BitScore"), Text("Seq_Length"), Text("Pfam_Annotations"),
      Text("InterPro_Annotations"), Text("GO_Terms"), Text("Description")>>

(* lines 246 and 263: the lines the merge writes a row for *)
IsMerged(line) == Len(Parts(line)) >= MinMergeFields

(* A merge that cuts at "-F1" and keeps the "AF-" prefix *)
AlphaFoldMergeId_KeepsPrefix(target_id) == Before(target_id, F1)

(* lines 247-248 *)
AlphaFoldMergeId(target_id) == Remove(Before(target_id, F1), AF)

(* lines 245-250: the row written for one line *)
AlphaFoldRow(line, descriptions) ==
    LET parts == Parts(line)
        target_id == parts[2]
        uniprot_id == AlphaFoldMergeId(target_id)
        description == Get(descriptions, uniprot_id, Text("No description found"))
    IN  SubSeq(parts, 1, 1) \o <<target_id, uniprot_id>> \o SubSeq(parts, 3, Len(parts))
          \o <<description>>

(* lines 236-250 *)
merge_alphafold_annotations(file, descriptions) ==
    <<AlphaFoldHeader>> \o
    LET kept == SelectSeq(file, IsMerged)
    IN  [i \in 1..Len(kept) |-> AlphaFoldRow(kept[i], descriptions)]

(* lines 264-275 *)
MgnifyMergeId(target_id) ==
    IF StartsWith(target_id, MGYP) \/ Contains(target_id, MGYP)
    THEN LET mgyp_id == IF StartsWith(target_id, MGYP)
                        THEN target_id
                        ELSE SubSeq(target_id, Find(target_id, MGYP), Len(target_id))
         IN  FirstToken(Before(Before(mgyp_id, <<".">>), <<"_">>))
    ELSE target_id

EmptyDict == [x \in {} |-> << >>]

(* lines 262-286: the row written for one line *)
MgnifyRow(line, annots) ==
    LET parts == Parts(line)
        target_id == parts[2]
        mgyp_id == MgnifyMergeId(target_id)
        annot == Get(annots, mgyp_id, EmptyDict)
        seq_length == Get(annot, "sequence_length", Text("N/A"))
        pfam_str == format_annotation_list(Get(annot, "pfam", << >>), "pfam")
        interpro_str == format_annotation_list(Get(annot, "interpro", << >>), "interpro")
        go_str == format_annotation_list(Get(annot, "go_terms", << >>), "go")
        description == Get(annot, "description", Text("No description"))
    IN  SubSeq(parts, 1, 1) \o <<target_id, mgyp_id>> \o SubSeq(parts, 3, Len(parts))
          \o <<seq_length, pfam_str, interpro_str, go_str, description>>

(* line 273 raises IndexError when nothing is left to split *)
MergeRaises(file) ==
    \E i \in 1..Len(file) :
        IsMerged(file[i]) /\ MgnifyMergeId(Parts(file[i])[2]) = IndexError

(* lines 252-286 *)
merge_mgnify_annotations(file, annots) ==
    <<MgnifyHeader>> \o
    LET kept == SelectSeq(file, IsMerged)
    IN  [i \in 1..Len(kept) |-> MgnifyRow(kept[i], annots)]

----------------------------------------------------------------------------
(* main, lines 363-385: extraction, fetch and merge of one input file *)

(* The target tokens of the lines of the model *)
Targets(db) ==
    IF db = "alphafold"
    THEN { <<"A", "F", "-", "P", "-", "F", "1">>,
           <<"A", "F", "-", "Q", "-", "F", "1">>,
           <<"P">>,
           <<"A", "F", "-", "Q">> }
    ELSE IF db = "mgnify"
    THEN { <<"M", "G", "Y", "P", "1">>,
           <<"x", "M", "G", "Y", "P", "2", ".", "1">>,
           <<"M", "G", "Y", "P">>,
           <<"x">> }
    ELSE { <<"1", "A", "B", "C", "-", "1">>,
           <<"x">> }

Stat == <<"1">>

(* A line of n fields: query, target, statistics; first and last as given *)
Fields(n, first, target, last) ==
    [i \in 1..n |-> IF i = 1 THEN first
                    ELSE IF i = 2 THEN target
                    ELSE IF i = n THEN last
                    ELSE Stat]

(* The shapes of a line: well formed, short, and with an empty first or *)
(* last field                                                            *)
Lines(db) ==
    UNION { { Join(Fields(1, <<"q">>, t, Stat), <<"\t">>),
              Join(Fields(2, <<"q">>, t, Stat), <<"\t">>),
              Join(Fields(MinMergeFields - 1, <<"q">>, t, Stat), <<"\t">>),
              Join(Fields(MinMergeFields, <<"q">>, t, Stat), <<"\t">>),
              Join(Fields(MinMergeFields, <<"q">>, t, << >>), <<"\t">>),
              Join(Fields(MinMergeFields + 1, << >>, t, Stat), <<"\t">>) }
            : t \in Targets(db) }

FilesUpTo(db, n) == UNION {[1..k -> Lines(db)] : k \in 0..n}

Files(db) == FilesUpTo(db, MaxLines)

(* What fetch_all_annotations returns to main: a dict with one entry for *)
(* every identifier, each entry a result of the adapter of the database  *)
FetchedPair(id, db, k) ==
    IF db = "alphafold"
    THEN IF k = 1 THEN AlphaFoldBody(id, JsonBodies[1]).pair
         ELSE IF k = 2 THEN AlphaFoldNon200(id, 404).pair
         ELSE AlphaFoldExcept(id, retries - 1, "timeout").pair
    ELSE IF k = 1 THEN MgnifyBody(id, Pages[2]).pair
         ELSE IF k = 2 THEN MgnifyNotFound(id).pair
         ELSE MgnifyExcept(id, retries - 1, "timeout").pair

FetchedKinds == {1, 2, 3}

(* No function is called on its own in a run of main *)
NoCall == [f |-> "none"]

InitMain ==
    /\ database \in Databases
    /\ m8_file \in Files(database)
    /\ argv = [d |-> database, i |-> TRUE, o |-> TRUE]
    /\ exit_status = -1
    /\ call = NoCall
    /\ ret = << >>
    /\ pc = "main"
    /\ protein_ids = << >>
    /\ annotations = EmptyDict
    /\ output = << >>
    /\ CONCURRENT_REQUESTS = 1
    /\ tasks = << >>
    /\ semaphore = 0
    /\ tpc = EmptyDict
    /\ attempt = EmptyDict
    /\ calls = EmptyDict
    /\ lasterr = EmptyDict
    /\ answers = {"200"}
    /\ completed = << >>
    /\ results = << >>

(* lines 340-361: argparse ends the process with status 2 when -d is not *)
(* one of the choices                                                    *)
ParseArgs ==
    /\ pc = "args"
    /\ IF argv.d \in Databases
       THEN database' = argv.d /\ pc' = "main" /\ UNCHANGED exit_status
       ELSE pc' = "usage" /\ exit_status' = 2 /\ UNCHANGED database
    /\ UNCHANGED <<CONCURRENT_REQUESTS, protein_ids, tasks, semaphore, tpc, attempt,
                   calls, lasterr, answers, completed, results, annotations, m8_file,
                   output, argv, call, ret>>

(* lines 364-372: extract_unique_ids is called outside the try block, so  *)
(* what it raises (the input cannot be opened, IndexError) ends the       *)
(* process with a traceback and status 1; no identifier found ends the    *)
(* run with a warning and the return of line 372                          *)
Extract ==
    /\ pc = "main"
    /\ IF ~argv.i \/ ExtractRaises(m8_file, database)
       THEN pc' = "raised" /\ exit_status' = 1 /\ UNCHANGED protein_ids
       ELSE /\ protein_ids' = extract_unique_ids(m8_file, database)
            /\ IF Len(protein_ids') = 0
               THEN pc' = "exit" /\ exit_status' = 0
               ELSE pc' = "fetch" /\ UNCHANGED exit_status
    /\ UNCHANGED <<database, CONCURRENT_REQUESTS, tasks, semaphore, tpc, attempt,
                   calls, lasterr, answers, completed, results, annotations, m8_file,
                   output, argv, call, ret>>

(* lines 375-378 *)
Fetched ==
    /\ pc = "fetch"
    /\ \E k \in FetchedKinds :
          annotations' = Dict([i \in 1..Len(protein_ids) |->
                                  FetchedPair(protein_ids[i], database, k)])
    /\ pc' = "merge"
    /\ UNCHANGED <<database, CONCURRENT_REQUESTS, protein_ids, tasks, semaphore, tpc,
                   attempt, calls, lasterr, answers, completed, results, m8_file,
                   output,
                   argv, exit_status, call, ret>>

(* lines 380-381 and 385-399: the merge runs inside the try block; when  *)
(* the output cannot be opened, open() raises before a row is written,   *)
(* the except clause prints the error and main returns                   *)
MergeAlphaFold ==
    /\ pc = "merge"
    /\ database = "alphafold"
    /\ IF ~argv.o
       THEN pc' = "caught" /\ UNCHANGED output
       ELSE pc' = "done" /\ output' = merge_alphafold_annotations(m8_file, annotations)
    /\ exit_status' = 0
    /\ UNCHANGED <<database, CONCURRENT_REQUESTS, protein_ids, tasks, semaphore, tpc,
                   attempt, calls, lasterr, answers, completed, results, annotations,
                   m8_file, argv, call, ret>>

(* lines 382-383 and 385-399 *)
MergeMgnify ==
    /\ pc = "merge"
    /\ database = "mgnify"
    /\ IF ~argv.o \/ MergeRaises(m8_file)
       THEN pc' = "caught" /\ UNCHANGED output
       ELSE pc' = "done" /\ output' = merge_mgnify_annotations(m8_file, annotations)
    /\ exit_status' = 0
    /\ UNCHANGED <<database, CONCURRENT_REQUESTS, protein_ids, tasks, semaphore, tpc,
                   attempt, calls, lasterr, answers, completed, results, annotations,
                   m8_file, argv, call, ret>>

NextMain ==
    \/ Extract
    \/ Fetched
    \/ MergeAlphaFold
    \/ MergeMgnify

SpecMain == InitMain /\ [][NextMain]_vars

(* A run from the command line: any value of -d, paths that can be opened *)
(* or not, and a file of at most one line                                 *)
Selectors == Databases \cup {"pdb"}

InitCli ==
    /\ argv \in [d : Selectors, i : BOOLEAN, o : BOOLEAN]
    /\ m8_file \in IF argv.i THEN FilesUpTo(argv.d, 1) ELSE {<< >>}
    /\ database = ""
    /\ exit_status = -1
    /\ call = NoCall
    /\ ret = << >>
    /\ pc = "args"
    /\ protein_ids = << >>
    /\ annotations = EmptyDict
    /\ output = << >>
    /\ CONCURRENT_REQUESTS = 1
    /\ tasks = << >>
    /\ semaphore = 0
    /\ tpc = EmptyDict
    /\ attempt = EmptyDict
    /\ calls = EmptyDict
    /\ lasterr = EmptyDict
    /\ answers = {"200"}
    /\ completed = << >>
    /\ results = << >>

NextCli ==
    \/ ParseArgs
    \/ NextMain

SpecCli == InitCli /\ [][NextCli]_vars

----------------------------------------------------------------------------
(* Properties of the extraction and the merge *)

(* The rows written after the header *)
DataRows == Tail(output)

(* The lines with at least 12 fields between tabs, as the file holds them *)
TabFields(line) == Split(line, "\t")

WellFormed(line) == Len(TabFields(line)) >= MinMergeFields

(* The lines the merge keeps: at least 12 parts once the line is stripped *)
Kept == SelectSeq(m8_file, IsMerged)

(* The annotation columns of a row: what follows the row's input fields *)
AnnotationColumns(row) ==
    IF database = "alphafold"
    THEN SubSeq(row, Len(row), Len(row))
    ELSE SubSeq(row, Len(row) - 4, Len(row))

DefaultColumns ==
    IF database = "alphafold"
    THEN <<Text("No description found")>>
    ELSE <<Text("N/A"), Text("None"), Text("None"), Text("None"), Text("No description")>>

(* C7, as claimed: the data rows of the output are, one for one and in    *)
(* order, the lines of the input with at least 12 tab-separated fields.   *)
C7_OneRowPerWellFormedLine ==
    pc = "done" =>
        LET valid == SelectSeq(m8_file, WellFormed)
        IN  /\ Len(DataRows) = Len(valid)
            /\ \A i \in 1..Len(valid) : DataRows[i][2] = TabFields(valid[i])[2]

(* C8: for every line the merge writes a row for, an identifier that the  *)
(* extraction derives from the target of the line is the identifier the   *)
(* merge writes in the row, and it is a key of the fetched annotations.   *)
C8_MergeRederivesTheExtractedId ==
    pc = "done" =>
        /\ Len(DataRows) = Len(Kept)
        /\ \A i \in 1..Len(Kept) :
              \A id \in ExtractedIds(Parts(Kept[i])[2], database) :
                  /\ DataRows[i][2] = Parts(Kept[i])[2]
                  /\ DataRows[i][3] = id
                  /\ id \in DOMAIN annotations

C8_Witness ==
    /\ pc = "done"
    /\ Len(DataRows) = 2
    /\ \A i \in 1..2 :
          /\ ExtractedIds(DataRows[i][2], database) = {DataRows[i][3]}
          /\ DataRows[i][2] # DataRows[i][3]
    /\ DataRows[1][3] # DataRows[2][3]

(* C9, as claimed: a row whose target gives no identifier at extraction   *)
(* is written with the default annotation columns of the database.        *)
C9_UnmatchedRowsGetDefaults ==
    pc = "done" =>
        \A i \in 1..Len(DataRows) :
            ExtractedIds(DataRows[i][2], database) = {} =>
                AnnotationColumns(DataRows[i]) = DefaultColumns

(* C10, as claimed: every identifier of the query set comes from a line   *)
(* with at least 12 fields.                                               *)
C10_NoIdFromShortLines ==
    pc \in {"fetch", "merge", "done"} =>
        \A id \in Range(protein_ids) :
            \E i \in 1..Len(m8_file) :
                /\ Len(Parts(m8_file[i])) >= MinMergeFields
                /\ id \in ExtractedIds(Parts(m8_file[i])[2], database)

----------------------------------------------------------------------------
(* Functions called on their own: the arguments are in call, the function *)
(* runs in one step and leaves what it returns in ret                     *)

(* No run of main is going on *)
NoRun ==
    /\ database = ""
    /\ CONCURRENT_REQUESTS = 0
    /\ protein_ids = << >>
    /\ tasks = << >>
    /\ semaphore = 0
    /\ tpc = EmptyDict
    /\ attempt = EmptyDict
    /\ calls = EmptyDict
    /\ lasterr = EmptyDict
    /\ answers = {}
    /\ completed = << >>
    /\ results = << >>
    /\ annotations = EmptyDict
    /\ m8_file = << >>
    /\ output = << >>
    /\ argv = [d |-> "", i |-> TRUE, o |-> TRUE]
    /\ exit_status = -1

Returns(value) ==
    /\ pc = "call"
    /\ pc' = "return"
    /\ ret' = value
    /\ UNCHANGED <<database, CONCURRENT_REQUESTS, protein_ids, tasks, semaphore, tpc,
                   attempt, calls, lasterr, answers, completed, results, annotations,
                   m8_file, output, argv, exit_status, call>>

(* The entries of an annotation list: what the MGnify adapter appends *)
Entries ==
    { [accession |-> PF1, name |-> Text("7tm_1")],
      [accession |-> PF2, name |-> Text("zf-C2H2")],
      [accession |-> Text("GO:0000001"), name |-> Text("membrane")],
      [accession |-> << >>, name |-> << >>] }

EntryLists == UNION {[1..n -> Entries] : n \in 0..MaxEntries}

(* The values of annotation_type: the three the merge passes, and another *)
AnnotationTypes == {"pfam", "interpro", "go", "kegg"}

InitFormat ==
    /\ NoRun
    /\ pc = "call"
    /\ call \in [f : {"format_annotation_list"}, annotations : EntryLists,
                  annotation_type : AnnotationTypes]
    /\ ret = << >>

CallFormat ==
    /\ call.f = "format_annotation_list"
    /\ Returns(format_annotation_list(call.annotations, call.annotation_type))

SpecFormat == InitFormat /\ [][CallFormat]_vars

Raises(e) ==
    /\ pc = "call"
    /\ pc' = "raise"
    /\ ret' = e
    /\ UNCHANGED <<database, CONCURRENT_REQUESTS, protein_ids, tasks, semaphore, tpc,
                   attempt, calls, lasterr, answers, completed, results, annotations,
                   m8_file, output, argv, exit_status, call>>

(* The target tokens extract_unique_ids is called on: what the rules of *)
(* the database look for, put together in every order                   *)
Pieces(db) ==
    IF db = "alphafold"
    THEN {AF, <<"P">>, F1}
    ELSE {MGYP, <<"1">>, <<".">>, <<"_">>, <<" ">>, <<"x">>}

RECURSIVE Concat(_)
Concat(texts) == IF texts = << >> THEN << >> ELSE Head(texts) \o Concat(Tail(texts))

Tokens(db) == {Concat(p) : p \in UNION {[1..n -> Pieces(db)] : n \in 0..MaxPieces}}

(* A file of one line whose second field is the target *)
OneLine(target) == << Join(<<Text("q"), target, Stat>>, <<"\t">>) >>

InitExtract ==
    /\ NoRun
    /\ pc = "call"
    /\ \E db \in Databases :
          call \in [f : {"extract_unique_ids"}, target : Tokens(db), database : {db}]
    /\ ret = << >>

CallExtract ==
    /\ call.f = "extract_unique_ids"
    /\ IF ExtractRaises(OneLine(call.target), call.database)
       THEN Raises(IndexError)
       ELSE Returns(extract_unique_ids(OneLine(call.target), call.database))

SpecExtract == InitExtract /\ [][CallExtract]_vars

(* The pages the Pfam passes of the MGnify adapter are called on: the     *)
(* embedded JSON block is absent, does not parse, or is a list of entries *)
(* (dicts with or without an accession, or values that are no dict); the  *)
(* table has some rows or none                                            *)
JsonEntries ==
    { JDict([accession |-> PF1, name |-> Text("7tm_1")]),
      JDict([name |-> Text("7tm_1")]),
      JStr([chars |-> Text("x")]) }

JsonBlocks ==
    { << >>, << BadJson >> } \cup
    { << GoodJson(e) >> : e \in UNION {[1..n -> JsonEntries] : n \in 0..MaxEntries} }

PfamRows == { <<PF2, <<" ", "z", "f", " ">>>>, <<PF2, <<"z", "f">>>> }

RowLists == UNION {[1..n -> PfamRows] : n \in 0..MaxEntries}

PfamPages == {Page(<< >>, j, r, << >>, << >>) : j \in JsonBlocks, r \in RowLists}

InitParse ==
    /\ NoRun
    /\ pc = "call"
    /\ call \in [f : {"fetch_mgnify_from_web"}, mgyp_id : {Id(1)}, page : PfamPages]
    /\ ret = << >>

(* lines 51-130: the response was 200 and its text is call.page *)
CallParse ==
    /\ call.f = "fetch_mgnify_from_web"
    /\ Returns(MgnifyBody(call.mgyp_id, call.page).pair)

SpecParse == InitParse /\ [][CallParse]_vars

(* C11, as claimed: a run whose input can be read ends with a status     *)
(* other than zero exactly when no identifier is extracted or the output  *)
(* cannot be written, whatever the fetch returned for the identifiers.    *)
C11_ExitStatusTellsFatalErrors ==
    (exit_status # -1 /\ argv.d \in Databases /\ argv.i) =>
        (exit_status # 0 <=>
            (extract_unique_ids(m8_file, database) = << >> \/ ~argv.o))

(* A task can take a step: it is inside a request or asleep, or it waits *)
(* for a slot and one is free                                             *)
CanStep(id) ==
    \/ tpc[id] \in {"request", "body", "sleep"}
    \/ tpc[id] = "loop" /\ semaphore > 0

Waiting(i) == i <= Len(protein_ids) /\ tpc[Id(i)] = "loop"

(* C12: with a positive limit and a fair event loop, fetch_all_annotations *)
(* eventually returns a dict with an entry for every identifier; a task    *)
(* that waits for a slot eventually gets one; and in no state are all      *)
(* unfinished tasks blocked.                                               *)
C12_FetchReturnsAndNoTaskStarves ==
    /\ <>(pc = "returned" /\ DOMAIN annotations = IdSet)
    /\ \A i \in 1..MaxIds : [](Waiting(i) => <>(~Waiting(i)))
    /\ []((pc = "as_completed" /\ \E id \in IdSet : tpc[id] # "done")
            => \E id \in IdSet : CanStep(id))

C12_Witness ==
    /\ pc = "returned"
    /\ CONCURRENT_REQUESTS > 0
    /\ Len(protein_ids) > CONCURRENT_REQUESTS
    /\ \E id \in IdSet : calls[id] = retries
    /\ DOMAIN annotations = IdSet

(* What is between the separators of a formatted list *)
Rendered(text) == Split(text, "; ")

EntryText(a) == a.accession \o Text(" (") \o a.name \o Text(")")

(* C13, as claimed: an empty list gives "None"; a list with entries gives *)
(* its entries as "accession (name)" with "; " between them and nowhere   *)
(* else, whatever annotation_type is.                                      *)
C13_FormatJoinsForEveryType ==
    pc = "return" =>
        IF call.annotations = << >>
        THEN ret = Text("None")
        ELSE Rendered(ret) = [i \in 1..Len(call.annotations) |->
                                 EntryText(call.annotations[i])]

(* C13, amended: the entries are joined when annotation_type is "pfam",   *)
(* "interpro" or "go"; for any other annotation_type the function returns *)
(* "None", also for a list with entries.                                   *)
C13_FormatJoinsForTheThreeTypes ==
    pc = "return" =>
        IF call.annotations = << >> \/ call.annotation_type \notin {"pfam", "interpro", "go"}
        THEN ret = Text("None")
        ELSE Rendered(ret) = [i \in 1..Len(call.annotations) |->
                                 EntryText(call.annotations[i])]

C13_Witness ==
    /\ pc = "return"
    /\ call.annotation_type = "go"
    /\ Len(call.annotations) >= 2
    /\ call.annotations[1] # call.annotations[2]
    /\ Len(Rendered(ret)) = Len(call.annotations)

(* C14, as claimed: for a target that starts with "AF-" and contains     *)
(* "-F1", the identifier is what stands between the leading "AF-" and    *)
(* the first "-F1"; an "AF-" further inside is kept.                      *)
C14_OnlyTheLeadingPrefixIsRemoved ==
    (pc = "return" /\ call.database = "alphafold"
       /\ StartsWith(call.target, AF) /\ Contains(call.target, F1)) =>
        ret = << SubSeq(call.target, Len(AF) + 1, Find(call.target, F1) - 1) >>

Stops == {".", "_"} \cup Whitespace

(* The text up to the first of ".", "_" or a whitespace character *)
RECURSIVE UpToStop(_)
UpToStop(text) ==
    IF text = << >> \/ Head(text) \in Stops THEN << >>
    ELSE <<Head(text)>> \o UpToStop(Tail(text))

FromFirstMgyp(target) == SubSeq(target, Find(target, MGYP), Len(target))

(* C15, as claimed: every target that contains "MGYP" gives the           *)
(* identifier that starts at the first "MGYP" and stops before the first  *)
(* ".", "_" or whitespace; a target without "MGYP" gives none; and the    *)
(* extraction never raises.                                               *)
C15_EveryMgypTargetGivesAnId ==
    call.database = "mgnify" =>
        /\ pc # "raise"
        /\ pc = "return" =>
              IF Contains(call.target, MGYP)
              THEN ret = << UpToStop(FromFirstMgyp(call.target)) >>
              ELSE ret = << >>

(* C15, amended: as claimed, but a target whose identifier would be the   *)
(* bare "MGYP" (nothing follows it before the first stop) gives none.     *)
C15_MgypTargetsLongerThanThePrefix ==
    call.database = "mgnify" =>
        /\ pc # "raise"
        /\ pc = "return" =>
              IF /\ Contains(call.target, MGYP)
                 /\ Len(UpToStop(FromFirstMgyp(call.target))) > Len(MGYP)
              THEN ret = << UpToStop(FromFirstMgyp(call.target)) >>
              ELSE ret = << >>

C15_Witness ==
    /\ pc = "return"
    /\ call.database = "mgnify"
    /\ ~StartsWith(call.target, MGYP)
    /\ ret # << >>
    /\ Len(ret[1]) < Len(FromFirstMgyp(call.target))

(* str.lower() on the characters of the model *)
Lower(text) ==
    [i \in 1..Len(text) |->
        CASE text[i] = "A" -> "a" [] text[i] = "B" -> "b" [] text[i] = "C" -> "c"
          [] OTHER -> text[i]]

(* The PDB rule: before the first "-" and the first ".", in lower case *)
PdbId(target) == Lower(Before(Before(target, <<"-">>), <<".">>))

PdbIds(file) ==
    {PdbId(Parts(file[i])[2]) :
        i \in {j \in 1..Len(file) : HasTarget(file[j])
                                        /\ Len(PdbId(Parts(file[j])[2])) = 4}}

BlockGivesAnEntry(page) ==
    /\ page.pfam_json # << >>
    /\ page.pfam_json[1].ok
    /\ page.pfam_json[1].v # << >>
    /\ page.pfam_json[1].v[1].t = "dict"

RowAccessions(page) == {page.pfam_rows[i][1] : i \in 1..Len(page.pfam_rows)}

(* C17: the Pfam list of the returned record comes from one pass. When    *)
(* the structured block gives an entry, the list holds entries of the     *)
(* block only, in the order of the block (all of them, or those before    *)
(* the element the parsing failed on), and no entry of a table row; the   *)
(* list is the list of the table rows only when the block is absent,      *)
(* does not parse or gives no entry.                                      *)
C17_PfamFromOnePassOnly ==
    pc = "return" =>
        LET page == call.page
            pfam == ret[2].pfam
        IN  IF BlockGivesAnEntry(page)
            THEN /\ pfam # << >>
                 /\ Len(pfam) <= Len(page.pfam_json[1].v)
                 /\ \A i \in 1..Len(pfam) :
                       /\ pfam[i].accession \notin RowAccessions(page)
                       /\ page.pfam_json[1].v[i].t = "dict"
                       /\ pfam[i].accession =
                             Get(page.pfam_json[1].v[i].v, "accession", << >>)
            ELSE /\ Len(pfam) = Len(page.pfam_rows)
                 /\ \A i \in 1..Len(pfam) : pfam[i].accession = page.pfam_rows[i][1]

(* The block fails part-way and the table has rows: the list holds the   *)
(* entries of the block before the failure and nothing of the table      *)
C17_Witness ==
    /\ pc = "return"
    /\ BlockGivesAnEntry(call.page)
    /\ Len(call.page.pfam_json[1].v) = 2
    /\ call.page.pfam_json[1].v[2].t # "dict"
    /\ call.page.pfam_rows # << >>
    /\ Len(ret[2].pfam) = 1

(* The results in another order of arrival *)
Reordered(perm) == [i \in 1..Len(results) |-> results[perm[i]]]

(* C18: the dict that fetch_all_annotations returns is the same for every *)
(* order in which the results could have arrived, and the entry of an     *)
(* identifier is the record of the one pair returned for it, by the task  *)
(* created for that identifier.                                           *)
C18_MapIndependentOfCompletionOrder ==
    pc = "returned" =>
        /\ \A perm \in Permutations(1..Len(results)) :
              Dict(Reordered(perm)) = annotations
        /\ \A id \in IdSet :
              LET written == {i \in 1..Len(results) : results[i][1] = id}
              IN  /\ Cardinality(written) = 1
                  /\ Cardinality(TasksFor(id)) = 1
                  /\ \A i \in written : annotations[id] = results[i][2]
                  /\ database = "mgnify" => annotations[id].mgyp_id = id

(* The tasks completed in another order than they were created in, with  *)
(* different records                                                       *)
C18_Witness ==
    /\ pc = "returned"
    /\ Len(results) >= 2
    /\ results[1][1] = protein_ids[2]
    /\ results[2][1] = protein_ids[1]
    /\ Description(results[1][2]) # Description(results[2][2])
    /\ annotations[protein_ids[1]] = results[2][2]

(* The number of annotation columns of the database *)
AnnotationWidth == Len(DefaultColumns)

MergeId(target_id) ==
    IF database = "alphafold" THEN AlphaFoldMergeId(target_id) ELSE MgnifyMergeId(target_id)

(* C19, as claimed: a row of the output is the first field of its input   *)
(* line, the target (the second field), the identifier derived from the   *)
(* target, the fields of the line from the third on as they are, and the  *)
(* annotation columns; and the merge step changes neither the fetched     *)
(* annotations nor the count of requests.                                 *)
C19_RowsPassTheInputFieldsThrough ==
    /\ [](pc = "done" =>
            \A i \in 1..Len(DataRows) :
                LET fields == TabFields(Kept[i])
                    row == DataRows[i]
                IN  /\ Len(row) = Len(fields) + 1 + AnnotationWidth
                    /\ row[1] = fields[1]
                    /\ row[2] = fields[2]
                    /\ row[3] = MergeId(fields[2])
                    /\ SubSeq(row, 4, Len(fields) + 1) = SubSeq(fields, 3, Len(fields)))
    /\ [][pc = "merge" => annotations' = annotations /\ calls' = calls]_vars

(* C20: once the semaphore exists, its free slots plus the tasks inside   *)
(* a request are the limit it was built with, in every state: a task that *)
(* waits, sleeps or has returned holds no slot, whatever way its attempts *)
(* ended; and every slot is free when fetch_all_annotations returns.      *)
C20_SlotsConserved ==
    /\ pc \in {"session", "as_completed", "returned"} =>
          /\ semaphore >= 0
          /\ semaphore + Cardinality(InFlight) = CONCURRENT_REQUESTS
    /\ pc = "returned" => semaphore = CONCURRENT_REQUESTS /\ InFlight = {}

(* A run that returned after attempts that ended in every way: with an   *)
(* exception, with a status that is retried, with 404 or with a record   *)
C20_Witness ==
    /\ pc = "returned"
    /\ semaphore = CONCURRENT_REQUESTS
    /\ Len(protein_ids) > CONCURRENT_REQUESTS
    /\ \E id \in IdSet : calls[id] = retries /\ lasterr[id] \in NetErrors
    /\ \E id \in IdSet : calls[id] > 1 /\ lasterr[id] \notin NetErrors

====
